---- MODULE Spec2Model ----
(***************************************************************************)
(* FastBLEOTA host uploader (BLE_OTA.py): the OTAProtocol engine.          *)
(*                                                                         *)
(* One asyncio task runs OTAProtocol.upload; the transport (bleak) calls   *)
(* _handle_progress_notification and _handle_disconnect on the same event  *)
(* loop, so they interleave with upload only while upload is suspended in  *)
(* an await.  pc names the await upload is suspended in; every action is   *)
(* the code that runs from one await to the next.                          *)
(***************************************************************************)
EXTENDS Integers, Sequences, FiniteSets, TLC

VARIABLES
    pc,                 \* where upload is suspended
    uploads,            \* upload calls made on this engine so far
    firmware_len,       \* len(firmware_data)
    mtu,                \* client.mtu_size
    chunk_size,         \* mtu - 3
    device_progress,    \* self.device_progress (latest-known snapshot)
    disconnected,       \* self.disconnected (asyncio.Event)
    session_open,       \* inside "async with BleakClient(...)"
    subscribed,         \* start_notify succeeded
    result,             \* the UploadResult being built / returned
    stats,              \* the TransferStats local to _transfer_firmware
    offset,             \* offset in _transfer_firmware
    current_percent,    \* current_percent in _transfer_firmware
    last_transfer_percent, \* self._last_transfer_percent
    interval_elapsed,   \* (now - self._last_transfer_emit_time) >= 0.15, as
                        \* line 417 last evaluated it (FALSE if it did not)
    transfer_emitted,   \* the TransferStats last passed to _emit_transfer
    progress_calls,     \* the sink calls of the latest _emit_progress, in order
    writes,             \* write_gatt_char calls that returned, in order
    exc,                \* exception travelling to upload's except clauses
    raised_at,          \* the await that raised it, and the flag at that time
    completion,         \* outcome of _wait_for_completion
    seen_progress,      \* device_progress as upload last read it to decide
    last_notify_pc,     \* await during which the latest notification came
    last_notify_kind,   \* how from_bytes treated it: decoded, short, malformed
    log                 \* kinds of log lines emitted by this upload call

vars == <<pc, uploads, firmware_len, mtu, chunk_size, device_progress,
          disconnected, session_open, subscribed, result, stats, offset,
          current_percent, writes, exc, raised_at, completion, seen_progress,
          last_notify_pc, last_notify_kind, log, last_transfer_percent,
          interval_elapsed, transfer_emitted, progress_calls>>

\* what the emission test of lines 416-421 reads and writes
emit_vars == <<last_transfer_percent, interval_elapsed, transfer_emitted>>

(***************************************************************************)
(* Bounds of the model.                                                    *)
(***************************************************************************)
MaxLen == 3            \* firmware lengths 0..MaxLen in the full upload
MaxUploads == 2        \* upload calls on one engine
MaxStuckPackets == 2   \* chunk writes followed in a loop that makes no progress
MaxXferLen == 401      \* firmware lengths in the transfer-loop specification
MaxPctTotal == 12      \* bytes_total 0..MaxPctTotal in the percent specification
MaxPctSent == 15       \* bytes_sent 0..MaxPctSent in the percent specification

(***************************************************************************)
(* Protocol constants.                                                     *)
(***************************************************************************)
IDLE == 0
WAITING_INIT == 1
RECEIVING == 2
VALIDATING == 3
APPLYING == 4
ERROR == 5

ERR_NONE == 0
CRC_MISMATCH == 5
NOT_SUPPORTED == 10

ACK_INTERVAL == 200
PROGRESS_LEN == 15
MTU_OVERHEAD == 3

\* UploadResult.device_error = None
Unset == -1

\* self._last_transfer_percent before any emission
NeverEmitted == -1

DeviceStates == IDLE..ERROR
DeviceErrors == ERR_NONE..NOT_SUPPORTED

\* ERROR_NAMES.get(error, "Unknown"); only the names the model tells apart
ErrorName(e) ==
    IF e = ERR_NONE THEN "None"
    ELSE IF e = CRC_MISMATCH THEN "CRC mismatch"
    ELSE IF e \in DeviceErrors THEN "Other device error"
    ELSE "Unknown"

(***************************************************************************)
(* Data structures.                                                        *)
(***************************************************************************)
\* DeviceProgress(): the dataclass defaults
DefaultProgress ==
    [state |-> IDLE, error |-> ERR_NONE, percent |-> 0, bytes_received |-> 0]

\* A notification payload: its length and the fields struct.unpack reads.
\* State byte 6 and error byte 11 lie outside the enumerations.
NotifyData ==
    { [len |-> PROGRESS_LEN, state |-> s, error |-> e, percent |-> 50,
       bytes_received |-> 1] : s \in IDLE..(ERROR + 1),
                               e \in {ERR_NONE, CRC_MISMATCH, NOT_SUPPORTED + 1} }
    \cup
    { [len |-> PROGRESS_LEN - 1, state |-> ERROR, error |-> CRC_MISMATCH,
       percent |-> 50, bytes_received |-> 1] }

\* DeviceProgress.from_bytes: DeviceState(state) / DeviceError(error) raise
\* ValueError for a byte outside the enumeration; a short payload decodes
\* to the defaults.
FromBytesRaises(data) ==
    /\ data.len >= PROGRESS_LEN
    /\ (data.state \notin DeviceStates \/ data.error \notin DeviceErrors)

\* faulty variant: the length test missing, a short payload's bytes decoded
FromBytes_NoLengthTest(data) ==
    [state |-> data.state, error |-> data.error,
     percent |-> data.percent, bytes_received |-> data.bytes_received]

FromBytes(data) ==
    IF data.len >= PROGRESS_LEN
    THEN [state |-> data.state, error |-> data.error,
          percent |-> data.percent, bytes_received |-> data.bytes_received]
    ELSE DefaultProgress

\* TransferStats(): start_time is not modelled
NewStats ==
    [bytes_sent |-> 0, bytes_total |-> 0, packets_sent |-> 0, packets_total |-> 0]

\* Python's // : floor division, also for a negative divisor
FloorDiv(a, b) == IF b > 0 THEN a \div b ELSE (0 - a) \div (0 - b)

Min(a, b) == IF a <= b THEN a ELSE b
Max(a, b) == IF a >= b THEN a ELSE b

\* faulty variant: percent without the saturation at 100
Percent_Unsaturated(st) ==
    IF st.bytes_total = 0 THEN 0
    ELSE (st.bytes_sent * 100) \div st.bytes_total

\* TransferStats.percent
Percent(st) ==
    IF st.bytes_total = 0 THEN 0
    ELSE Min(100, (st.bytes_sent * 100) \div st.bytes_total)

\* UploadResult()
NewResult ==
    [success |-> FALSE, error_message |-> <<>>, stats |-> NewStats,
     device_error |-> Unset]

\* len(data[start:stop]) for a buffer of n bytes (Python slice clamping)
SliceIndex(n, i) == IF i < 0 THEN Max(i + n, 0) ELSE Min(i, n)
SliceLen(n, start, stop) == Max(0, SliceIndex(n, stop) - SliceIndex(n, start))

\* Exceptions the transport raises: BleakError, or another Exception such
\* as asyncio.TimeoutError, whose str() is empty.  A text is a sequence of
\* message parts; the empty string is <<>>.
NoExc == [kind |-> "none", text |-> <<>>]
TransportErrors ==
    { [kind |-> "BleakError", text |-> <<"Not connected">>],
      [kind |-> "Exception", text |-> <<"OSError">>],
      [kind |-> "Exception", text |-> <<>>] }
NoRaise == [at |-> "none", flag |-> FALSE]
ZeroDivisionError ==
    [kind |-> "Exception", text |-> <<"integer division or modulo by zero">>]

(***************************************************************************)
(* Decisions of the engine, as operators.                                  *)
(***************************************************************************)

\* calculate_crc32(firmware_data): the buffer's contents are not modelled, a
\* CRC is known by the span of the buffer it was computed over
CalculateCrc32(n) == [covers |-> n]

\* create_init_packet: struct.pack('<IIB', size, crc, flags)
CreateInitPacket(size, crc, flags) ==
    [len |-> 4 + 4 + 1, size |-> size, crc |-> crc, flags |-> flags]

\* faulty variant: the init packet written without response
InitWrite_Unacked(n) ==
    [kind |-> "init", char |-> "DATA", offset |-> 0, index |-> 0,
     response |-> FALSE,
     len |-> CreateInitPacket(n, CalculateCrc32(n), 0).len,
     size |-> CreateInitPacket(n, CalculateCrc32(n), 0).size,
     crc |-> CreateInitPacket(n, CalculateCrc32(n), 0).crc,
     flags |-> CreateInitPacket(n, CalculateCrc32(n), 0).flags]

\* the init write of lines 347-348 for a buffer of n bytes: the packet of
\* create_init_packet(len(firmware_data), firmware_crc), written to the
\* data characteristic with response=True
InitWrite(n) ==
    [kind |-> "init", char |-> "DATA", offset |-> 0, index |-> 0,
     response |-> TRUE,
     len |-> CreateInitPacket(n, CalculateCrc32(n), 0).len,
     size |-> CreateInitPacket(n, CalculateCrc32(n), 0).size,
     crc |-> CreateInitPacket(n, CalculateCrc32(n), 0).crc,
     flags |-> CreateInitPacket(n, CalculateCrc32(n), 0).flags]

\* faulty variant: no periodic acknowledged write, only the last chunk's
UseResponse_LastOnly(is_last, packets_sent) == is_last

\* faulty variant: the "packets_sent > 0" test forgotten
UseResponse_AtZero(is_last, packets_sent) ==
    is_last \/ packets_sent % ACK_INTERVAL = 0

\* _transfer_firmware: use_response
UseResponse(is_last, packets_sent) ==
    is_last \/ (packets_sent % ACK_INTERVAL = 0 /\ packets_sent > 0)

\* no TransferStats has been passed to _emit_transfer yet
NoTransferEvent == [NewStats EXCEPT !.packets_sent = NeverEmitted]

\* line 417 is an "or" chain: the interval test is evaluated only when the
\* chunk is not the last one and the percent has not changed, and then the
\* clock decides it either way
IntervalOutcomes(is_last, current, last) ==
    IF is_last \/ current # last THEN {FALSE} ELSE BOOLEAN

\* faulty variant: the 150 ms arm of the emission test missing
EmitDue_NoInterval(is_last, current, last, elapsed) ==
    is_last \/ current # last

\* the emission test of line 417
EmitDue(is_last, current, last, elapsed) ==
    is_last \/ current # last \/ elapsed

\* faulty variant: the rounding-up term of packets_total forgotten
PacketsTotal_Floor(n, c) == FloorDiv(n, c)

\* _transfer_firmware: packets_total
PacketsTotal(n, c) == FloorDiv(n + c - 1, c)

\* faulty variant: the Error arm of the timeout branch missing
TimeoutOutcome_NoErrorArm(state) ==
    IF state = APPLYING THEN "Applying" ELSE "UnknownNoReboot"

\* _wait_for_completion, timeout branch: which arm is taken
TimeoutOutcome(state) ==
    IF state = APPLYING THEN "Applying"
    ELSE IF state = ERROR THEN "DeviceFailed"
    ELSE "UnknownNoReboot"

\* _wait_for_completion: the boolean each outcome returns
CompletionResult(outcome) == outcome # "DeviceFailed"

\* _wait_for_completion: the log line of each outcome
CompletionLog(outcome) ==
    IF outcome = "Success" THEN "rebooted"
    ELSE IF outcome = "Applying" THEN "applying"
    ELSE IF outcome = "DeviceFailed" THEN "device_error"
    ELSE "no_reboot_warning"

\* faulty variant: the Applying test of "except BleakError" missing
ExceptIsSuccess_FlagOnly(e, flag, dp) == flag

\* upload: "except BleakError" / "except Exception": is it success?
ExceptIsSuccess(e, flag, dp) ==
    IF e.kind = "BleakError"
    THEN flag \/ dp.state = APPLYING
    ELSE flag

\* upload: the result the except clauses leave
ExceptResult(e, flag, dp, res) ==
    IF ExceptIsSuccess(e, flag, dp)
    THEN [res EXCEPT !.success = TRUE]
    ELSE [res EXCEPT !.error_message = e.text]

ExceptLog(e, flag, dp) ==
    IF ExceptIsSuccess(e, flag, dp) THEN "rebooted"
    ELSE IF e.kind = "BleakError" THEN "ble_error" ELSE "error"

\* faulty variant: the rejection does not record the device error code
RejectedResult_NoCode(dp, res) ==
    [res EXCEPT !.error_message = <<"Device rejected init", ErrorName(dp.error)>>]

\* upload: the result of the "Check for immediate errors" branch
RejectedResult(dp, res) ==
    [res EXCEPT !.error_message = <<"Device rejected init", ErrorName(dp.error)>>,
                !.device_error = dp.error]

(***************************************************************************)
(* Initial state: OTAProtocol.__init__, no upload called yet.              *)
(***************************************************************************)
Init ==
    /\ pc = "idle"
    /\ uploads = 0
    /\ firmware_len = 0
    /\ mtu = 0
    /\ chunk_size = 0
    /\ device_progress = DefaultProgress
    /\ disconnected = FALSE
    /\ session_open = FALSE
    /\ subscribed = FALSE
    /\ result = NewResult
    /\ stats = NewStats
    /\ offset = 0
    /\ current_percent = 0
    /\ last_transfer_percent = NeverEmitted
    /\ interval_elapsed = FALSE
    /\ transfer_emitted = NoTransferEvent
    /\ progress_calls = <<>>
    /\ writes = <<>>
    /\ exc = NoExc
    /\ raised_at = NoRaise
    /\ completion = "None"
    /\ seen_progress = DefaultProgress
    /\ last_notify_pc = "none"
    /\ last_notify_kind = "none"
    /\ log = {}

MTUs == {MTU_OVERHEAD - 1, MTU_OVERHEAD, MTU_OVERHEAD + 1, MTU_OVERHEAD + 2}

(***************************************************************************)
(* upload, step by step.                                                   *)
(***************************************************************************)
\* upload is called: lines 312-319, up to the await of find_device_by_address
UploadCall ==
    /\ pc \in {"idle", "done", "raised"}
    /\ uploads < MaxUploads
    /\ \E n \in 0..MaxLen :
        /\ firmware_len' = n
        /\ result' = [NewResult EXCEPT !.stats.bytes_total = n]
    /\ uploads' = uploads + 1
    /\ pc' = "resolve"
    /\ mtu' = 0
    /\ chunk_size' = 0
    /\ stats' = NewStats
    /\ offset' = 0
    /\ current_percent' = 0
    /\ interval_elapsed' = FALSE
    /\ transfer_emitted' = NoTransferEvent
    /\ writes' = <<>>
    /\ exc' = NoExc
    /\ raised_at' = NoRaise
    /\ completion' = "None"
    /\ seen_progress' = DefaultProgress
    /\ last_notify_pc' = "none"
    /\ last_notify_kind' = "none"
    /\ log' = {"connecting"}
    /\ UNCHANGED <<device_progress, disconnected, session_open, subscribed,
                   last_transfer_percent, progress_calls>>

\* faulty variant: the Event left as the previous upload set it
ResolveFound_NoClear ==
    /\ pc = "resolve"
    /\ log' = log \cup {"found"}
    /\ pc' = "open"
    /\ UNCHANGED <<uploads, firmware_len, current_percent, emit_vars,
                   progress_calls, mtu, chunk_size, device_progress,
                   disconnected, session_open, subscribed, result, stats,
                   offset, writes, exc, raised_at, completion, seen_progress,
                   last_notify_pc, last_notify_kind>>

\* find_device_by_address returns a device: lines 328-329, then the
\* await of BleakClient.__aenter__
ResolveFound ==
    /\ pc = "resolve"
    /\ disconnected' = FALSE
    /\ log' = log \cup {"found"}
    /\ pc' = "open"
    /\ UNCHANGED <<uploads, firmware_len, current_percent, emit_vars, progress_calls,
                   mtu, chunk_size, device_progress,
                   session_open, subscribed, result, stats, offset, writes,
                   exc, raised_at, completion, seen_progress, last_notify_pc, last_notify_kind>>

\* faulty variant: the not-found branch records the message but falls
\* through to the connection instead of returning
ResolveNotFound_FallsThrough ==
    /\ pc = "resolve"
    /\ result' = [result EXCEPT !.error_message = <<"Device not found">>]
    /\ log' = log \cup {"not_found"}
    /\ pc' = "open"
    /\ UNCHANGED <<uploads, firmware_len, current_percent, emit_vars, progress_calls,
                   mtu, chunk_size, device_progress,
                   disconnected, session_open, subscribed, stats, offset,
                   writes, exc, raised_at, completion, seen_progress,
                   last_notify_pc, last_notify_kind>>

\* find_device_by_address returns None: lines 323-326
ResolveNotFound ==
    /\ pc = "resolve"
    /\ result' = [result EXCEPT !.error_message = <<"Device not found">>]
    /\ log' = log \cup {"not_found"}
    /\ pc' = "done"
    /\ UNCHANGED <<uploads, firmware_len, current_percent, emit_vars, progress_calls,
                   mtu, chunk_size, device_progress,
                   disconnected, session_open, subscribed, stats, offset,
                   writes, exc, raised_at, completion, seen_progress,
                   last_notify_pc, last_notify_kind>>

\* find_device_by_address raises (Bluetooth unavailable): line 322 is
\* outside the try statement, the exception leaves upload
ResolveRaises ==
    /\ pc = "resolve"
    /\ \E e \in TransportErrors : exc' = e
    /\ raised_at' = [at |-> "resolve", flag |-> disconnected]
    /\ pc' = "raised"
    /\ UNCHANGED <<uploads, firmware_len, current_percent, emit_vars, progress_calls,
                   mtu, chunk_size, device_progress,
                   disconnected, session_open, subscribed, result, stats,
                   offset, writes, completion, seen_progress, last_notify_pc, last_notify_kind,
                   log>>

\* BleakClient.__aenter__ connects: lines 333-337, then the await of start_notify
OpenOk ==
    /\ pc = "open"
    /\ session_open' = TRUE
    /\ \E m \in MTUs :
        /\ mtu' = m
        /\ chunk_size' = m - MTU_OVERHEAD
    /\ log' = log \cup {"connected"}
    /\ pc' = "subscribe"
    /\ UNCHANGED <<uploads, firmware_len, current_percent, emit_vars, progress_calls,
                   device_progress, disconnected,
                   subscribed, result, stats, offset, writes, exc, raised_at,
                   completion, seen_progress, last_notify_pc, last_notify_kind>>

\* BleakClient.__aenter__ raises: no __aexit__ runs, the except clauses
\* of lines 374-389 handle it and upload returns
OpenRaises ==
    /\ pc = "open"
    /\ \E e \in TransportErrors :
        /\ exc' = e
        /\ result' = ExceptResult(e, disconnected, device_progress, result)
        /\ log' = log \cup {ExceptLog(e, disconnected, device_progress)}
    /\ raised_at' = [at |-> "open", flag |-> disconnected]
    /\ pc' = "done"
    /\ UNCHANGED <<uploads, firmware_len, current_percent, emit_vars, progress_calls,
                   mtu, chunk_size, device_progress,
                   disconnected, session_open, subscribed, stats, offset,
                   writes, completion, seen_progress, last_notify_pc, last_notify_kind>>

\* start_notify returns: line 342, then lines 347-348 up to the await of
\* the init write
SubscribeOk ==
    /\ pc = "subscribe"
    /\ subscribed' = TRUE
    /\ log' = log \cup {"subscribed"}
    /\ pc' = "init_write"
    /\ UNCHANGED <<uploads, firmware_len, current_percent, emit_vars, progress_calls,
                   mtu, chunk_size, device_progress,
                   disconnected, session_open, result, stats, offset, writes,
                   exc, raised_at, completion, seen_progress, last_notify_pc, last_notify_kind>>

\* faulty variant: the exception of start_notify not swallowed, it
\* unwinds through __aexit__ like any other transport error
SubscribeRaises_Fatal ==
    /\ pc = "subscribe"
    /\ log' = log \cup {"notify_unavailable"}
    /\ \E e \in TransportErrors : exc' = e
    /\ raised_at' = [at |-> "subscribe", flag |-> disconnected]
    /\ pc' = "exit"
    /\ UNCHANGED <<uploads, firmware_len, current_percent, emit_vars, progress_calls,
                   mtu, chunk_size, device_progress,
                   disconnected, session_open, subscribed, result, stats,
                   offset, writes, completion, seen_progress,
                   last_notify_pc, last_notify_kind>>

\* start_notify raises: lines 343-344 swallow it
SubscribeRaises ==
    /\ pc = "subscribe"
    /\ log' = log \cup {"notify_unavailable"}
    /\ pc' = "init_write"
    /\ UNCHANGED <<uploads, firmware_len, current_percent, emit_vars, progress_calls,
                   mtu, chunk_size, device_progress,
                   disconnected, session_open, subscribed, result, stats,
                   offset, writes, exc, raised_at, completion, seen_progress,
                   last_notify_pc, last_notify_kind>>

\* the init write returns: line 349, then the await of sleep(0.05)
InitWriteOk ==
    /\ pc = "init_write"
    /\ writes' = Append(writes, InitWrite(firmware_len))
    /\ log' = log \cup {"init_sent"}
    /\ pc' = "grace"
    /\ UNCHANGED <<uploads, firmware_len, current_percent, emit_vars, progress_calls,
                   mtu, chunk_size, device_progress,
                   disconnected, session_open, subscribed, result, stats,
                   offset, exc, raised_at, completion, seen_progress,
                   last_notify_pc, last_notify_kind>>

\* the init write raises: the exception unwinds through __aexit__
InitWriteRaises ==
    /\ pc = "init_write"
    /\ \E e \in TransportErrors : exc' = e
    /\ raised_at' = [at |-> "init_write", flag |-> disconnected]
    /\ pc' = "exit"
    /\ UNCHANGED <<uploads, firmware_len, current_percent, emit_vars, progress_calls,
                   mtu, chunk_size, device_progress,
                   disconnected, session_open, subscribed, result, stats,
                   offset, writes, completion, seen_progress, last_notify_pc, last_notify_kind,
                   log>>

\* after the grace sleep, device_progress shows Error: lines 355-359; the
\* return leaves the "async with" block through __aexit__
InitRejected ==
    /\ pc = "grace"
    /\ device_progress.state = ERROR
    /\ seen_progress' = device_progress
    /\ result' = RejectedResult(device_progress, result)
    /\ log' = log \cup {"rejected"}
    /\ pc' = "exit"
    /\ UNCHANGED <<uploads, firmware_len, current_percent, emit_vars, progress_calls,
                   mtu, chunk_size, device_progress,
                   disconnected, session_open, subscribed, stats, offset,
                   writes, exc, raised_at, completion, last_notify_pc,
                   last_notify_kind>>

\* _wait_for_completion is entered: lines 433-434, up to the await of wait_for
EnterWait(st) ==
    /\ result' = [result EXCEPT !.stats = st]
    /\ completion' = "AwaitingDisconnect"
    /\ log' = log \cup {"waiting"}
    /\ pc' = "wait"

\* _transfer_firmware starts: lines 395-403.  With an empty buffer the loop
\* is not entered and line 362 stores the stats
TransferStart ==
    /\ pc = "grace"
    /\ device_progress.state # ERROR
    /\ chunk_size # 0
    /\ offset' = 0
    /\ stats' = [NewStats EXCEPT !.bytes_total = firmware_len,
                                 !.packets_total = PacketsTotal(firmware_len, chunk_size)]
    /\ IF 0 < firmware_len
       THEN /\ pc' = "chunk"
            /\ UNCHANGED <<result, completion, log>>
       ELSE EnterWait(stats')
    /\ UNCHANGED <<uploads, firmware_len, current_percent, emit_vars, progress_calls,
                   mtu, chunk_size, device_progress,
                   disconnected, session_open, subscribed, writes, exc,
                   raised_at, seen_progress, last_notify_pc, last_notify_kind>>

\* _transfer_firmware, line 397 with chunk_size = 0: ZeroDivisionError
TransferDivZero ==
    /\ pc = "grace"
    /\ device_progress.state # ERROR
    /\ chunk_size = 0
    /\ exc' = ZeroDivisionError
    /\ raised_at' = [at |-> "transfer", flag |-> disconnected]
    /\ pc' = "exit"
    /\ UNCHANGED <<uploads, firmware_len, current_percent, emit_vars, progress_calls,
                   mtu, chunk_size, device_progress,
                   disconnected, session_open, subscribed, result, stats,
                   offset, writes, completion, seen_progress, last_notify_pc,
                   last_notify_kind, log>>

\* faulty variant: every chunk taken to be chunk_size bytes long, the
\* slice's clamping at the end of the buffer ignored
ChunkLen_Unclamped == chunk_size

\* len(chunk), line 404
ChunkLen == SliceLen(firmware_len, offset, offset + chunk_size)

\* is_last, line 405
IsLast == offset + ChunkLen >= firmware_len

\* a chunk write returns: lines 412-427, then the loop test of line 403
\* and either the next chunk's write or the return into line 362
ChunkWriteOk ==
    /\ pc = "chunk"
    /\ chunk_size >= 1 \/ stats.packets_sent < MaxStuckPackets
    /\ writes' = Append(writes, [kind |-> "chunk", char |-> "DATA",
                                 offset |-> offset, len |-> ChunkLen,
                                 index |-> stats.packets_sent,
                                 response |-> UseResponse(IsLast, stats.packets_sent)])
    /\ offset' = offset + ChunkLen
    /\ stats' = [stats EXCEPT !.bytes_sent = offset',
                              !.packets_sent = stats.packets_sent + 1]
    /\ current_percent' = Percent(stats')
    /\ \E elapsed \in IntervalOutcomes(IsLast, current_percent',
                                       last_transfer_percent) :
        /\ interval_elapsed' = elapsed
        /\ IF EmitDue(IsLast, current_percent', last_transfer_percent, elapsed)
           THEN /\ last_transfer_percent' = current_percent'
                /\ transfer_emitted' = stats'
           ELSE UNCHANGED <<last_transfer_percent, transfer_emitted>>
    /\ IF offset' < firmware_len
       THEN /\ pc' = "chunk"
            /\ log' = log \cup {"progress"}
            /\ UNCHANGED <<result, completion>>
       ELSE /\ result' = [result EXCEPT !.stats = stats']
            /\ completion' = "AwaitingDisconnect"
            /\ log' = log \cup {"progress", "waiting"}
            /\ pc' = "wait"
    /\ UNCHANGED <<uploads, firmware_len, mtu, chunk_size, device_progress,
                   disconnected, session_open, subscribed, exc, raised_at,
                   seen_progress, last_notify_pc, last_notify_kind,
                   progress_calls>>

\* a chunk write raises: the exception unwinds through __aexit__
ChunkWriteRaises ==
    /\ pc = "chunk"
    /\ \E e \in TransportErrors : exc' = e
    /\ raised_at' = [at |-> "chunk", flag |-> disconnected]
    /\ pc' = "exit"
    /\ UNCHANGED <<uploads, firmware_len, current_percent, emit_vars, progress_calls,
                   mtu, chunk_size, device_progress,
                   disconnected, session_open, subscribed, result, stats,
                   offset, writes, completion, seen_progress, last_notify_pc,
                   last_notify_kind, log>>

\* lines 365-372 once _wait_for_completion has decided on outcome
FinishWait(outcome) ==
    /\ completion' = outcome
    /\ seen_progress' = device_progress
    /\ result' = [result EXCEPT !.success = CompletionResult(outcome)]
    /\ log' = log \cup {CompletionLog(outcome)}
                  \cup (IF CompletionResult(outcome) THEN {"summary"} ELSE {})
    /\ pc' = "exit"
    /\ UNCHANGED <<uploads, firmware_len, current_percent, emit_vars, progress_calls,
                   mtu, chunk_size, device_progress,
                   disconnected, session_open, subscribed, stats, offset,
                   writes, exc, raised_at, last_notify_pc, last_notify_kind>>

\* wait_for returns because self.disconnected is set: lines 439-440
WaitDisconnected ==
    /\ pc = "wait"
    /\ disconnected
    /\ FinishWait("Success")

\* faulty variant: the timeout branch taken although the flag is set
WaitTimeout_IgnoresFlag ==
    /\ pc = "wait"
    /\ FinishWait(TimeoutOutcome(device_progress.state))

\* wait_for times out after 15 s: lines 441-451
WaitTimeout ==
    /\ pc = "wait"
    /\ ~disconnected
    /\ FinishWait(TimeoutOutcome(device_progress.state))

\* BleakClient.__aexit__ disconnects; the transport may call
\* _handle_disconnect while doing so.  An exception in flight then reaches
\* the except clauses of lines 374-389; line 391 returns
SessionExit ==
    /\ pc = "exit"
    /\ session_open' = FALSE
    /\ subscribed' = FALSE
    /\ \E fired \in BOOLEAN :
        /\ disconnected' = (disconnected \/ fired)
        /\ IF exc # NoExc
           THEN /\ result' = ExceptResult(exc, disconnected', device_progress, result)
                /\ log' = log \cup {ExceptLog(exc, disconnected', device_progress)}
                              \cup (IF fired THEN {"disconnected"} ELSE {})
           ELSE /\ result' = result
                /\ log' = log \cup (IF fired THEN {"disconnected"} ELSE {})
    /\ pc' = "done"
    /\ UNCHANGED <<uploads, firmware_len, current_percent, emit_vars, progress_calls,
                   mtu, chunk_size, device_progress,
                   stats, offset, writes, exc, raised_at, completion,
                   seen_progress, last_notify_pc, last_notify_kind>>

(***************************************************************************)
(* Transport callbacks.                                                    *)
(***************************************************************************)
\* self._progress_callbacks: the sinks registered with on_progress, in
\* registration order
ProgressCallbacks == <<"first_sink", "second_sink">>

\* faulty variant: the sinks called in the reverse of registration order
EmitProgress_Reversed(progress) ==
    [i \in 1..Len(ProgressCallbacks) |->
        [sink |-> ProgressCallbacks[Len(ProgressCallbacks) + 1 - i],
         value |-> progress]]

\* _emit_progress: every registered sink is called with the value, in
\* list order
EmitProgress(progress) ==
    [i \in 1..Len(ProgressCallbacks) |->
        [sink |-> ProgressCallbacks[i], value |-> progress]]

NotifyKind(data) ==
    IF FromBytesRaises(data) THEN "malformed"
    ELSE IF data.len >= PROGRESS_LEN THEN "decoded" ELSE "short"

\* _handle_progress_notification: from_bytes raising leaves the snapshot
\* as it was (the assignment of line 277 never happens)
HandleProgressNotification(data) ==
    /\ device_progress' = IF FromBytesRaises(data) THEN device_progress
                          ELSE FromBytes(data)
    /\ progress_calls' = IF FromBytesRaises(data) THEN progress_calls
                         ELSE EmitProgress(device_progress')
    /\ log' = IF ~FromBytesRaises(data) /\ FromBytes(data).state = ERROR
              THEN log \cup {"device_error_notified"} ELSE log

\* the transport delivers a progress notification while upload awaits
Notify ==
    /\ session_open
    /\ subscribed
    /\ ~disconnected
    /\ \E data \in NotifyData :
        /\ HandleProgressNotification(data)
        /\ last_notify_kind' = NotifyKind(data)
    /\ last_notify_pc' = pc
    /\ UNCHANGED <<pc, uploads, firmware_len, current_percent, emit_vars, mtu,
                   chunk_size, disconnected,
                   session_open, subscribed, result, stats, offset, writes,
                   exc, raised_at, completion, seen_progress>>

\* _handle_disconnect: the link is lost while upload awaits
Disconnect ==
    /\ session_open
    /\ ~disconnected
    /\ disconnected' = TRUE
    /\ log' = log \cup {"disconnected"}
    /\ UNCHANGED <<pc, uploads, firmware_len, current_percent, emit_vars, progress_calls,
                   mtu, chunk_size, device_progress,
                   session_open, subscribed, result, stats, offset, writes,
                   exc, raised_at, completion, seen_progress, last_notify_pc,
                   last_notify_kind>>

Next ==
    \/ UploadCall
    \/ ResolveFound
    \/ ResolveNotFound
    \/ ResolveRaises
    \/ OpenOk
    \/ OpenRaises
    \/ SubscribeOk
    \/ SubscribeRaises
    \/ InitWriteOk
    \/ InitWriteRaises
    \/ InitRejected
    \/ TransferStart
    \/ TransferDivZero
    \/ ChunkWriteOk
    \/ ChunkWriteRaises
    \/ WaitDisconnected
    \/ WaitTimeout
    \/ SessionExit
    \/ Notify
    \/ Disconnect

Spec == Init /\ [][Next]_vars

(***************************************************************************)
(* The transfer loop alone, for buffers long enough to reach the           *)
(* ACK_INTERVAL cadence: the state upload is in when line 362 calls        *)
(* _transfer_firmware (device found, session open, subscription            *)
(* unavailable, init packet written), then only the loop's own steps.      *)
(***************************************************************************)
XferMTUs == {MTU_OVERHEAD + 1, MTU_OVERHEAD + 2}

InitXfer ==
    /\ pc = "grace"
    /\ uploads = 1
    /\ firmware_len \in 0..MaxXferLen
    /\ mtu \in XferMTUs
    /\ chunk_size = mtu - MTU_OVERHEAD
    /\ device_progress = DefaultProgress
    /\ disconnected = FALSE
    /\ session_open = TRUE
    /\ subscribed = FALSE
    /\ result = [NewResult EXCEPT !.stats.bytes_total = firmware_len]
    /\ stats = NewStats
    /\ offset = 0
    /\ current_percent = 0
    /\ last_transfer_percent = NeverEmitted
    /\ interval_elapsed = FALSE
    /\ transfer_emitted = NoTransferEvent
    /\ progress_calls = <<>>
    /\ writes = << InitWrite(firmware_len) >>
    /\ exc = NoExc
    /\ raised_at = NoRaise
    /\ completion = "None"
    /\ seen_progress = DefaultProgress
    /\ last_notify_pc = "none"
    /\ last_notify_kind = "none"
    /\ log = {"connecting", "found", "connected", "notify_unavailable", "init_sent"}

NextXfer ==
    \/ TransferStart
    \/ ChunkWriteOk

SpecXfer == InitXfer /\ [][NextXfer]_vars

(***************************************************************************)
(* TransferStats.percent on its own: a TransferStats of any total, whose   *)
(* bytes_sent is assigned any sequence of non-decreasing values (also      *)
(* values above bytes_total) and whose percent is read after each          *)
(* assignment, as lines 413 and 415 do.                                    *)
(***************************************************************************)
InitPct ==
    /\ pc = "percent"
    /\ uploads = 0
    /\ firmware_len = 0
    /\ mtu = 0
    /\ chunk_size = 0
    /\ device_progress = DefaultProgress
    /\ disconnected = FALSE
    /\ session_open = FALSE
    /\ subscribed = FALSE
    /\ result = NewResult
    /\ \E t \in 0..MaxPctTotal : stats = [NewStats EXCEPT !.bytes_total = t]
    /\ offset = 0
    /\ current_percent = Percent(stats)
    /\ last_transfer_percent = NeverEmitted
    /\ interval_elapsed = FALSE
    /\ transfer_emitted = NoTransferEvent
    /\ progress_calls = <<>>
    /\ writes = <<>>
    /\ exc = NoExc
    /\ raised_at = NoRaise
    /\ completion = "None"
    /\ seen_progress = DefaultProgress
    /\ last_notify_pc = "none"
    /\ last_notify_kind = "none"
    /\ log = {}

\* stats.bytes_sent = <a value not below the present one>;
\* current_percent = stats.percent
UpdateBytesSent ==
    /\ pc = "percent"
    /\ \E b \in stats.bytes_sent..MaxPctSent :
        stats' = [stats EXCEPT !.bytes_sent = b]
    /\ current_percent' = Percent(stats')
    /\ UNCHANGED <<pc, uploads, firmware_len, mtu, chunk_size, device_progress,
                   disconnected, session_open, subscribed, result, offset,
                   writes, exc, raised_at, completion, seen_progress,
                   last_notify_pc, last_notify_kind, log, emit_vars,
                   progress_calls>>

NextPct == UpdateBytesSent

SpecPct == InitPct /\ [][NextPct]_vars

(***************************************************************************)
(* Properties.                                                             *)
(***************************************************************************)
ChunkWrites == { i \in DOMAIN writes : writes[i].kind = "chunk" }

\* chunk writes issued with response=True
AckedChunkWrites == Cardinality({ i \in ChunkWrites : writes[i].response })

TimedOut == completion \in {"Applying", "DeviceFailed", "UnknownNoReboot"}

\* C1: when the completion wait times out with the latest-known state
\* Error (here with code CrcMismatch), upload returns success = false and
\* the result's device_error is the code of that snapshot.
C1_TimeoutErrorCarriesCode ==
    (pc = "done" /\ completion = "DeviceFailed" /\ chunk_size >= 1
        /\ seen_progress.error = CRC_MISMATCH)
    => (~result.success /\ result.device_error = seen_progress.error)

\* C2: an Error notification (here with code CrcMismatch) received during
\* the chunk loop that is still the latest-known state when upload returns,
\* after a completion wait ended by disconnect or by timeout, makes upload
\* return success = false with the device error code in the result.
C2_MidTransferErrorIsFatal ==
    (pc = "done" /\ completion \in {"Success", "DeviceFailed"}
        /\ chunk_size >= 1
        /\ last_notify_pc = "chunk" /\ last_notify_kind = "decoded"
        /\ device_progress.state = ERROR
        /\ device_progress.error = CRC_MISMATCH)
    => (~result.success /\ result.device_error = device_progress.error)

C4_NoReinterpretationBeforeInit ==
    (pc = "done" /\ exc # NoExc /\ raised_at.at \in {"open", "init_write"}
        /\ mtu # MTU_OVERHEAD /\ mtu # MTU_OVERHEAD - 1
        /\ raised_at.flag)
    => ~result.success

\* C5: upload never lets an exception escape to its caller, whichever step
\* fails.
C5_NeverPropagates == pc # "raised"

\* C6: when the check after the grace sleep finds state Error, upload
\* leaves that check by aborting; once aborted, the result is success =
\* false with the snapshot's error code and a non-empty message, no chunk
\* has been written and the completion wait has not been entered.
C6_RejectedState ==
    "rejected" \in log =>
        /\ pc \in {"exit", "done"}
        /\ ~result.success
        /\ result.device_error = seen_progress.error
        /\ seen_progress.state = ERROR
        /\ result.error_message # <<>>
        /\ ChunkWrites = {}
        /\ completion = "None"

C6_RejectedStep ==
    (pc = "grace" /\ device_progress.state = ERROR /\ pc' # "grace")
    => (pc' = "exit" /\ "rejected" \in log' /\ seen_progress' = device_progress)

C6_InitRejectionAborts == []C6_RejectedState /\ [][C6_RejectedStep]_vars

C6_Witness ==
    /\ pc = "done"
    /\ "rejected" \in log
    /\ result.device_error = CRC_MISMATCH
    /\ device_progress.state # ERROR

\* C7: a completion wait that finds the disconnect flag set (latched before
\* or during the wait) ends in Success, and upload returns success = true.
C7_SuccessState ==
    completion = "Success" => (pc \in {"exit", "done"} /\ result.success)

C7_WaitStep ==
    (pc = "wait" /\ disconnected /\ pc' # "wait") => completion' = "Success"

C7_DisconnectIsSuccess == []C7_SuccessState /\ [][C7_WaitStep]_vars

C7_Witness ==
    /\ pc = "done"
    /\ completion = "Success"
    /\ result.success
    /\ firmware_len > 0
    /\ result.stats.bytes_sent = firmware_len

\* C8: a completion wait that times out returns success exactly when the
\* latest-known state at that moment is not Error: Applying is success,
\* and every other non-Error state is success with the warning that the
\* device may need a manual restart.
C8_TimeoutDecision ==
    TimedOut =>
        /\ result.success = (seen_progress.state # ERROR)
        /\ (seen_progress.state = APPLYING) = (completion = "Applying")
        /\ (seen_progress.state \notin {APPLYING, ERROR})
               = ("no_reboot_warning" \in log)

C8_Witness ==
    /\ pc = "done"
    /\ completion = "UnknownNoReboot"
    /\ seen_progress.state = VALIDATING
    /\ result.success
    /\ "no_reboot_warning" \in log

\* ceil(a / b) for b >= 1, by its defining inequalities
IsCeilDiv(q, a, b) == q * b >= a /\ (q - 1) * b < a

\* writes of the upload issued with response=True, the init write included
AckedWrites == Cardinality({ i \in DOMAIN writes : writes[i].response })

\* the final chunk's index is itself on the ACK_INTERVAL cadence
FinalOnCadence(pt) == pt > 1 /\ (pt - 1) % ACK_INTERVAL = 0

\* C9 (amended): with packets_total = ceil(L/C), the acknowledged writes
\* of a completed transfer, counting the acknowledged init write, number
\* ceil(packets_total/200) plus one for the final chunk, the final chunk
\* not counted twice when it falls on the 200-cadence; the loop's own
\* acknowledged chunk writes are one fewer.
C9_AckedWriteCount ==
    (pc = "wait" /\ chunk_size >= 1) =>
        LET pt == stats.packets_total
            expected == ((pt + ACK_INTERVAL - 1) \div ACK_INTERVAL) + 1
                        - (IF FinalOnCadence(pt) THEN 1 ELSE 0)
        IN  /\ IsCeilDiv(pt, firmware_len, chunk_size)
            /\ Cardinality(ChunkWrites) = pt
            /\ AckedWrites = expected
            /\ AckedChunkWrites = expected - 1

C9_Witness ==
    /\ pc = "wait"
    /\ stats.packets_total = ACK_INTERVAL + 1
    /\ AckedWrites = 2
    /\ AckedChunkWrites = 1

\* C9 as claimed: the acknowledged chunk writes issued by the loop number
\* ceil(packets_total/200) + 1, or ceil(packets_total/200) when the final
\* chunk falls on a 200-boundary (counting chunks from 0 or from 1).
C9_AsClaimed ==
    (pc = "wait" /\ chunk_size >= 1) =>
        LET pt == stats.packets_total
            c == (pt + ACK_INTERVAL - 1) \div ACK_INTERVAL
            boundary == pt % ACK_INTERVAL = 0 \/ (pt - 1) % ACK_INTERVAL = 0
        IN  \/ AckedChunkWrites = c + 1
            \/ boundary /\ AckedChunkWrites = c

\* C10: a chunk write is acknowledged exactly when it is the final chunk
\* or the number of chunks written before it is a positive multiple of
\* ACK_INTERVAL; a completed transfer of a non-empty buffer ends with an
\* acknowledged write of its final chunk.
C10_AckIffFinalOrCadence ==
    /\ \A i \in ChunkWrites :
          writes[i].response =
              (\/ writes[i].offset + writes[i].len >= firmware_len
               \/ (writes[i].index > 0 /\ writes[i].index % ACK_INTERVAL = 0))
    /\ (pc = "wait" /\ firmware_len >= 1) =>
          LET w == writes[Len(writes)]
          IN  /\ w.kind = "chunk"
              /\ w.offset + w.len = firmware_len
              /\ w.response

C10_Witness ==
    /\ Len(writes) > ACK_INTERVAL
    /\ LET w == writes[Len(writes)]
       IN  /\ w.kind = "chunk"
           /\ w.index = ACK_INTERVAL
           /\ w.response
           /\ w.offset + w.len < firmware_len

\* C11: with chunk size >= 1 a transfer loop that ran to completion has
\* made exactly packets_total = ceil(L/C) chunk writes and returns
\* bytes_sent = L and packets_sent = packets_total; an empty buffer makes
\* no chunk write, has packets_total = 0 and goes straight to the wait.
C11_CompletedState ==
    (pc = "wait" /\ chunk_size >= 1) =>
        /\ IsCeilDiv(stats.packets_total, firmware_len, chunk_size)
        /\ Cardinality(ChunkWrites) = stats.packets_total
        /\ stats.packets_sent = stats.packets_total
        /\ stats.bytes_sent = firmware_len
        /\ result.stats = stats
        /\ firmware_len = 0 => (ChunkWrites = {} /\ stats.packets_total = 0)

C11_EmptyStep ==
    (pc = "grace" /\ firmware_len = 0 /\ chunk_size >= 1
        /\ device_progress.state # ERROR /\ pc' # "grace")
    => pc' = "wait"

C11_TransferCounts == []C11_CompletedState /\ [][C11_EmptyStep]_vars

C11_Witness ==
    /\ pc = "wait"
    /\ firmware_len = 2 * chunk_size + 1
    /\ Cardinality(ChunkWrites) = 3
    /\ stats.packets_sent = 3
    /\ stats.bytes_sent = firmware_len

\* C12: the chunk loop never loops forever, for any MTU (below 4 included,
\* where the chunk size is zero or negative) and any firmware length: every
\* chunk write that returns either ends the loop or moves the offset
\* strictly nearer to the end of the buffer, so the loop is left after
\* finitely many writes and upload returns.
C12_ChunkWriteAdvances ==
    (pc = "chunk" /\ writes' # writes) =>
        \/ pc' # "chunk"
        \/ firmware_len - offset' < firmware_len - offset

C12_LoopTerminates == [][C12_ChunkWriteAdvances]_vars

\* C13: when the address is not resolved to a device, upload returns
\* success = false with the 'Device not found' message, and no session was
\* opened, nothing was subscribed and no write was issued.
C13_NotFoundReturnsUntouched ==
    "not_found" \in log =>
        /\ pc = "done"
        /\ ~result.success
        /\ result.error_message = <<"Device not found">>
        /\ result.device_error = Unset
        /\ writes = <<>>
        /\ ~session_open
        /\ ~subscribed
        /\ log \cap {"connected", "subscribed", "notify_unavailable", "init_sent"} = {}
        /\ exc = NoExc

C13_Witness ==
    /\ pc = "done"
    /\ "not_found" \in log
    /\ result.error_message = <<"Device not found">>
    /\ writes = <<>>

\* C14: a failure to subscribe to the progress channel is not fatal: the
\* upload goes on to the init write exactly as after a successful
\* subscription (nothing but the subscription itself differs), receives no
\* notification, and unless something else fails it streams every chunk
\* and runs the completion wait.
C14_FailedSubscriptionState ==
    "notify_unavailable" \in log =>
        /\ ~subscribed
        /\ "subscribed" \notin log
        /\ last_notify_pc = "none"
        /\ raised_at.at # "subscribe"
        /\ pc = "done" => ("init_sent" \in log \/ raised_at.at = "init_write")
        /\ (pc = "done" /\ exc = NoExc /\ "rejected" \notin log) =>
              /\ writes # <<>> /\ writes[1].kind = "init"
              /\ chunk_size >= 1 =>
                    Cardinality(ChunkWrites) = stats.packets_total
              /\ stats.bytes_sent = firmware_len
              /\ "waiting" \in log
              /\ completion \in {"Success", "UnknownNoReboot", "Applying",
                                 "DeviceFailed"}

C14_SubscribeStep ==
    (pc = "subscribe" /\ pc' # "subscribe") =>
        /\ pc' = "init_write"
        /\ UNCHANGED <<uploads, firmware_len, current_percent, emit_vars, progress_calls,
                       mtu, chunk_size,
                       device_progress, disconnected, session_open, result,
                       stats, offset, writes, exc, raised_at, completion,
                       seen_progress>>

C14_SubscriptionFailureNonFatal ==
    []C14_FailedSubscriptionState /\ [][C14_SubscribeStep]_vars

C14_Witness ==
    /\ pc = "done"
    /\ "notify_unavailable" \in log
    /\ firmware_len >= 2
    /\ stats.bytes_sent = firmware_len
    /\ Cardinality(ChunkWrites) = stats.packets_total
    /\ completion = "UnknownNoReboot"
    /\ result.success

\* C15: with chunk size >= 1 the transfer statistics never report more
\* bytes sent than the buffer holds (bytes_sent <= bytes_total in every
\* state), and within one upload bytes_sent and packets_sent never decrease
\* from one chunk write to the next.
C15_BytesBounded ==
    chunk_size >= 1 =>
        /\ 0 <= stats.bytes_sent
        /\ stats.bytes_sent <= stats.bytes_total
        /\ result.stats.bytes_sent <= result.stats.bytes_total

C15_CountersStep ==
    (chunk_size >= 1 /\ uploads' = uploads) =>
        /\ stats'.bytes_sent >= stats.bytes_sent
        /\ stats'.packets_sent >= stats.packets_sent
        /\ (pc = "chunk" /\ writes' # writes) =>
              /\ stats'.bytes_sent > stats.bytes_sent
              /\ stats'.packets_sent = stats.packets_sent + 1

C15_StatsBoundedMonotone == []C15_BytesBounded /\ [][C15_CountersStep]_vars

C15_Witness ==
    /\ pc = "chunk"
    /\ chunk_size = 2
    /\ stats.bytes_total = 3
    /\ stats.bytes_sent = 2
    /\ stats.packets_sent = 1

\* C16: TransferStats.percent is always in 0..100, equals
\* min(100, floor(bytes_sent * 100 / bytes_total)) (0 for an empty total),
\* saturates at 100 also when bytes_sent exceeds bytes_total, and never
\* decreases while bytes_sent does not decrease and bytes_total is fixed.
C16_PercentValue ==
    /\ current_percent \in 0..100
    /\ stats.bytes_total = 0 => current_percent = 0
    /\ stats.bytes_total > 0 =>
          IF stats.bytes_sent >= stats.bytes_total
          THEN current_percent = 100
          ELSE /\ current_percent * stats.bytes_total <= stats.bytes_sent * 100
               /\ stats.bytes_sent * 100 < (current_percent + 1) * stats.bytes_total

C16_PercentStep ==
    (stats'.bytes_total = stats.bytes_total
        /\ stats'.bytes_sent >= stats.bytes_sent)
    => current_percent' >= current_percent

C16_PercentSaturatingMonotone == []C16_PercentValue /\ [][C16_PercentStep]_vars

C16_Witness ==
    /\ pc = "percent"
    /\ stats.bytes_total = 3
    /\ stats.bytes_sent > stats.bytes_total
    /\ current_percent = 100

\* C17: a progress notification shorter than 15 bytes never raises; it
\* decodes to the all-default DeviceProgress, and that default replaces the
\* latest-known snapshot whatever the snapshot was before.
C17_ShortDecodesToDefault ==
    /\ \A data \in NotifyData :
          data.len < PROGRESS_LEN =>
              /\ ~FromBytesRaises(data)
              /\ NotifyKind(data) = "short"
    /\ last_notify_kind = "short" => device_progress = DefaultProgress

C17_ShortStep ==
    (last_notify_kind' = "short" /\ last_notify_pc' = pc /\ pc' = pc) =>
        device_progress' = DefaultProgress

C17_ShortNotificationIsDefault ==
    []C17_ShortDecodesToDefault /\ [][C17_ShortStep]_vars

C17_Witness ==
    /\ "rejected" \in log
    /\ seen_progress.state = ERROR
    /\ last_notify_kind = "short"
    /\ last_notify_pc = "exit"
    /\ device_progress = DefaultProgress

\* C18: a malformed progress notification (15 bytes or more, state or error
\* byte outside the enumeration) is a non-fatal decode error after which
\* the latest-known snapshot is the default DeviceProgress (stated for a
\* notification that arrives during the chunk transfer).
C18_MalformedDegradesToDefault ==
    (last_notify_kind = "malformed" /\ last_notify_pc = "chunk"
        /\ chunk_size >= 1)
    => device_progress = DefaultProgress

\* C19: every upload that returns success = true has emitted the final
\* summary log before returning, on every path that leads to success (stated
\* for chunk size >= 1, the normal return and a chunk write that raised
\* BleakError after the device had disconnected).
C19_SuccessHasSummary ==
    (/\ pc = "done"
     /\ result.success
     /\ chunk_size >= 1
     /\ exc # NoExc => (/\ exc.kind = "BleakError"
                        /\ raised_at.at = "chunk"
                        /\ raised_at.flag))
    => "summary" \in log

\* C20: the first write of every upload is the 9-byte init packet (size =
\* firmware length, CRC of the whole buffer, flags = 0), acknowledged and on
\* the data characteristic; no chunk is written before that write has
\* returned; with chunk size >= 1 the chunks follow in strictly increasing
\* offset order, each exactly chunk_size bytes except possibly the last, each
\* starting where the one before ended, so that once the transfer is
\* complete they cover the buffer from byte 0 to its end.
C20_InitFirst ==
    /\ pc \in {"idle", "resolve", "open", "subscribe", "init_write"}
          => writes = <<>>
    /\ writes # <<>> =>
          /\ "init_sent" \in log
          /\ writes[1].kind = "init"
          /\ writes[1].char = "DATA"
          /\ writes[1].response
          /\ writes[1].len = 9
          /\ writes[1].size = firmware_len
          /\ writes[1].crc = [covers |-> firmware_len]
          /\ writes[1].flags = 0
          /\ \A i \in 2..Len(writes) :
                writes[i].kind = "chunk" /\ writes[i].char = "DATA"

C20_ChunksInOrder ==
    chunk_size >= 1 =>
        /\ \A i \in 2..Len(writes) :
              /\ writes[i].offset =
                    IF i = 2 THEN 0 ELSE writes[i-1].offset + writes[i-1].len
              /\ i > 2 => writes[i].offset > writes[i-1].offset
              /\ writes[i].len \in 1..chunk_size
              /\ writes[i].offset + writes[i].len <= firmware_len
              /\ writes[i].len < chunk_size =>
                    /\ i = Len(writes)
                    /\ writes[i].offset + writes[i].len = firmware_len
        /\ completion # "None" =>
              /\ writes # <<>>
              /\ firmware_len =
                    IF Len(writes) = 1 THEN 0
                    ELSE writes[Len(writes)].offset + writes[Len(writes)].len

C20_InitThenChunksInOrder == C20_InitFirst /\ C20_ChunksInOrder

C20_Witness ==
    /\ pc = "done"
    /\ completion # "None"
    /\ chunk_size = 2
    /\ firmware_len = 3
    /\ Len(writes) = 3
    /\ writes[1].kind = "init"
    /\ writes[2].offset = 0 /\ writes[2].len = 2
    /\ writes[3].offset = 2 /\ writes[3].len = 1

\* C21: after each chunk write a transfer-stats event is emitted if and
\* only if the chunk is the last one, or the integer percent differs from
\* the percent at the previous emission, or the 150 ms interval has elapsed
\* since the previous emission; an emission records the percent it reported;
\* so for a non-empty firmware the last event of a completed transfer
\* reports bytes_sent = bytes_total.
C21_EmitStep ==
    (pc = "chunk" /\ writes' # writes) =>
        /\ (transfer_emitted' = stats')
              <=> (\/ IsLast
                   \/ current_percent' # last_transfer_percent
                   \/ interval_elapsed')
        /\ transfer_emitted' = stats' =>
              last_transfer_percent' = current_percent'
        /\ transfer_emitted' # stats' =>
              UNCHANGED <<transfer_emitted, last_transfer_percent>>

C21_EmittedState ==
    /\ transfer_emitted # NoTransferEvent =>
          last_transfer_percent = Percent(transfer_emitted)
    /\ (pc = "wait" /\ firmware_len > 0 /\ chunk_size >= 1) =>
          /\ transfer_emitted = stats
          /\ transfer_emitted.bytes_sent = transfer_emitted.bytes_total
          /\ transfer_emitted.bytes_total = firmware_len

C21_EmissionThrottle == []C21_EmittedState /\ [][C21_EmitStep]_vars

C21_Witness ==
    /\ pc = "chunk"
    /\ interval_elapsed
    /\ transfer_emitted = stats
    /\ stats.packets_sent > ACK_INTERVAL
    /\ current_percent = Percent(stats)

\* C22: counting from the acknowledged init write, there are never more
\* than ACK_INTERVAL (200) consecutive unacknowledged chunk writes: in every
\* state one of the latest ACK_INTERVAL + 1 writes was acknowledged, and a
\* completed transfer ends with an acknowledged write.
C22_UnackedRunBounded ==
    /\ writes # <<>> =>
          \E j \in DOMAIN writes :
              /\ j >= Len(writes) - ACK_INTERVAL
              /\ writes[j].response
    /\ (pc = "wait" /\ writes # <<>>) => writes[Len(writes)].response

C22_Witness ==
    /\ Len(writes) = ACK_INTERVAL + 2
    /\ writes[1].response
    /\ \A j \in 2..(ACK_INTERVAL + 1) : ~writes[j].response
    /\ writes[ACK_INTERVAL + 2].response
    /\ pc = "chunk"

\* C23: a notification callback, at whatever await of the upload it runs,
\* replaces the latest-known DeviceProgress by the decoded value as a whole
\* and passes that same value to every registered progress sink in
\* registration order; it changes neither the TransferStats nor the
\* disconnect flag (nor where upload stands).
C23_NotifyStep ==
    /\ (device_progress' # device_progress \/ progress_calls' # progress_calls)
       => /\ \E data \in NotifyData :
                /\ ~FromBytesRaises(data)
                /\ NotifyKind(data) = last_notify_kind'
                /\ device_progress' = FromBytes(data)
          /\ Len(progress_calls') = Len(ProgressCallbacks)
          /\ \A i \in DOMAIN progress_calls' :
                /\ progress_calls'[i].sink = ProgressCallbacks[i]
                /\ progress_calls'[i].value = device_progress'
          /\ last_notify_pc' = pc
          /\ UNCHANGED <<pc, stats, disconnected, result, offset, writes,
                         current_percent, emit_vars, exc, completion>>
    /\ (uploads' = uploads
          /\ (last_notify_kind' # last_notify_kind
                \/ last_notify_pc' # last_notify_pc))
       => UNCHANGED <<pc, stats, disconnected, result, offset, writes>>

C23_SinksState ==
    progress_calls # <<>> =>
        /\ Len(progress_calls) = Len(ProgressCallbacks)
        /\ \A i \in DOMAIN progress_calls :
              /\ progress_calls[i].sink = ProgressCallbacks[i]
              /\ progress_calls[i].value = device_progress

C23_NotificationOnlyReplacesSnapshot ==
    []C23_SinksState /\ [][C23_NotifyStep]_vars

C23_Witness ==
    /\ pc = "chunk"
    /\ last_notify_pc = "chunk"
    /\ last_notify_kind = "decoded"
    /\ device_progress.state = RECEIVING
    /\ stats.packets_sent >= 1
    /\ progress_calls = << [sink |-> "first_sink", value |-> device_progress],
                           [sink |-> "second_sink", value |-> device_progress] >>

\* C24: whenever upload returns success = true the returned stats show the
\* whole firmware as sent: bytes_sent = bytes_total = firmware length and
\* packets_sent = packets_total (stated for chunk size >= 1, the normal
\* return and a chunk write that raised BleakError after the device had
\* disconnected).
C24_SuccessStatsComplete ==
    (/\ pc = "done"
     /\ result.success
     /\ chunk_size >= 1
     /\ exc # NoExc => (/\ exc.kind = "BleakError"
                        /\ raised_at.at = "chunk"
                        /\ raised_at.flag))
    => /\ result.stats.bytes_total = firmware_len
       /\ result.stats.bytes_sent = result.stats.bytes_total
       /\ result.stats.packets_sent = result.stats.packets_total

\* C25: the decisions of one upload call depend only on notifications
\* received during that call; in particular the post-init rejection check
\* never rejects on an Error snapshot left over from an earlier upload on
\* the same engine: an upload that was rejected received a notification
\* before the check (stated for chunk size >= 1 and error code
\* CRC_MISMATCH).
C25_RejectionFromThisUpload ==
    (/\ "rejected" \in log
     /\ chunk_size >= 1
     /\ seen_progress.error = CRC_MISMATCH
     /\ pc = "exit")
    => last_notify_pc # "none"

\* C26: the disconnect flag is unset when an upload opens its transport
\* session, so a disconnect latched by an earlier upload never makes a later
\* upload's completion wait report success: a flag seen set inside the
\* session was set by this upload's own disconnect callback; and within one
\* upload the flag, once set, stays set until upload returns.
C26_FlagState ==
    /\ pc = "open" => ~disconnected
    /\ (disconnected /\ pc \in {"subscribe", "init_write", "grace", "chunk",
                                "wait"})
          => "disconnected" \in log
    /\ completion = "Success" => "disconnected" \in log

C26_FlagStep ==
    /\ (pc = "resolve" /\ pc' = "open") => ~disconnected'
    /\ (pc = "open" /\ pc' = "subscribe") => (~disconnected' /\ session_open')
    /\ (disconnected /\ pc \in {"subscribe", "init_write", "grace", "chunk",
                                "wait", "exit"})
          => disconnected'

C26_FlagClearedPerUpload == []C26_FlagState /\ [][C26_FlagStep]_vars

C26_Witness ==
    /\ uploads >= 2
    /\ pc = "wait"
    /\ disconnected
    /\ "disconnected" \in log

\* C27: every returned UploadResult is internally consistent: success =
\* true implies an empty error_message and an unset device_error, and
\* success = false implies a non-empty error_message (stated for chunk
\* size >= 1, a non-empty firmware, uploads in which no transport call
\* raised, and a device whose Error state carries the code CRC_MISMATCH).
C27_ResultConsistent ==
    (/\ pc = "done"
     /\ chunk_size >= 1
     /\ firmware_len >= 1
     /\ exc = NoExc
     /\ seen_progress.state = ERROR => seen_progress.error = CRC_MISMATCH)
    =>
        /\ result.success =>
              (result.error_message = <<>> /\ result.device_error = Unset)
        /\ ~result.success => result.error_message # <<>>

====
